---- MODULE Spec2Model ----
(***************************************************************************)
(* jingle_sleigh FFI layer: the segmented load image that serves the       *)
(* decoder's byte reads, the p-code / assembly capture sinks, and the      *)
(* per-image decode orchestrator (SleighImage / ContextFFI).               *)
(***************************************************************************)
EXTENDS Integers, Sequences, FiniteSets, TLC

VARIABLES
    image,      \* SpecLoad: the Image (list of sections) held by the load image
    lastRead,   \* SpecLoad: the last loadFill call: arguments and outcome
    ops,        \* PcodeCacher::ops / JinglePcodeEmitter::ops of the sink in use
    emitted,    \* the dump callbacks the engine has made into that sink, in order
    iaddr,      \* the ghidra::Address of the instruction the engine is decoding
    orch,       \* the orchestrators: 0 is the ContextFFI, 1.. are SleighImages
    call,       \* the get_one_instruction call in progress and its position
    asm,        \* AssemblyCacher::mnem / body of the call in progress
    result,     \* what the last finished get_one_instruction call returned
    ref,        \* an Instruction some earlier call returned, kept by the caller
    failedSince,\* whether a call on ref's orchestrator failed after ref
    native,     \* the engine's address-space table and register table
    bridge,     \* the last call made through rust::behavior::trycatch
    listing,    \* what the getRegisters calls so far returned, oldest first
    params,     \* the CompileParams handed to compile
    options     \* what compile passed to SleighCompile::setAllOptions

loadVars == <<image, lastRead>>
sinkVars == <<ops, emitted, iaddr>>
decodeVars == <<orch, call, asm, result, ref, failedSince>>
ffiVars == <<native, bridge, listing, params, options>>
vars == <<image, lastRead, ops, emitted, iaddr, orch, call, asm, result, ref,
          failedSince, native, bridge, listing, params, options>>

\* No catalog loaded, no bridged call made, no compilation asked for.
NoCatalog == [spaces |-> <<>>, registers |-> <<>>]
NoCall == [op |-> "none"]
NoParams == [defines |-> <<>>, flags |-> <<>>]
NoOptions == [set |-> FALSE]
FfiIdle ==
    /\ native = NoCatalog
    /\ bridge = NoCall
    /\ listing = <<>>
    /\ params = NoParams
    /\ options = NoOptions

----------------------------------------------------------------------------
(* Bounds of the load-image model *)

\* highest section base address and highest requested address
AddrMax == 3
\* longest section data buffer
MaxSecLen == 2
\* most sections in one image
MaxSections == 2
\* largest requested length (ghidra::int4 size)
MaxSize == 3

\* What a caller's buffer may hold before loadFill writes to it.
PreBytes == {0, 255}

Min(a, b) == IF a < b THEN a ELSE b

\* The byte stored at 0-based index j of the s-th section of a generated image:
\* every byte of an image is distinct and non-zero, so an output byte tells
\* which section byte it was copied from.
SectionByte(s, j) == 16 * s + j + 1

SectionData(s, n) == [j \in 1..n |-> SectionByte(s, j - 1)]

\* Image { sections: Vec<ImageSection { base_address, data }> }
RECURSIVE ImagesOfLen(_)
ImagesOfLen(n) ==
    IF n = 0 THEN {<<>>}
    ELSE { Append(img, [base_address |-> b, data |-> SectionData(n, l)]) :
             img \in ImagesOfLen(n - 1), b \in 0..AddrMax, l \in 1..MaxSecLen }

Images == UNION { ImagesOfLen(n) : n \in 0..MaxSections }

Buffers(size) == [1..size -> PreBytes]

----------------------------------------------------------------------------
(* DummyLoadImage::loadFill, dummy_load_image.cpp *)

\* std::memcpy(ptr, &section.data[start_idx], len): the destination is always
\* the start of the buffer.
Memcpy(ptr, data, start_idx, len) ==
    [i \in 1..Len(ptr) |-> IF i <= len THEN data[start_idx + i] ELSE ptr[i]]

\* The loop over img.sections; st = [offset, bytes_written, ptr].
RECURSIVE LoadScan(_, _, _, _)
LoadScan(sections, k, size, st) ==
    IF k > Len(sections) THEN st
    ELSE LET section == sections[k]
             start == section.base_address
             end == start + Len(section.data)
         IN  IF start <= st.offset /\ st.offset < end
             THEN LET len == Min(size, end - st.offset)
                      start_idx == st.offset - start
                  IN  LoadScan(sections, k + 1, size,
                               [offset |-> st.offset + len,
                                bytes_written |-> st.bytes_written + len,
                                ptr |-> Memcpy(st.ptr, section.data, start_idx, len)])
             ELSE LoadScan(sections, k + 1, size, st)

\* for (size_t i = from; i < size; ++i) ptr[i] = 0;   (i is 0-based)
ZeroFill(ptr, from, size) ==
    [i \in 1..Len(ptr) |-> IF i > from /\ i <= size THEN 0 ELSE ptr[i]]

NoError == [kind |-> "none"]

\* ghidra::DataUnavailError("Unable to load <size> bytes at <shortcut><addr>")
DataUnavailError(addr, size) ==
    [kind |-> "DataUnavailError", address |-> addr, size |-> size]

\* A variant that never raises.
DummyLoadFillSilent(img, ptr, size, addr) ==
    LET st == LoadScan(img, 1, size, [offset |-> addr, bytes_written |-> 0, ptr |-> ptr])
    IN  [ptr |-> ZeroFill(st.ptr, st.bytes_written, size),
         bytes_written |-> st.bytes_written,
         thrown |-> FALSE,
         err |-> NoError]

DummyLoadFill(img, ptr, size, addr) ==
    LET st == LoadScan(img, 1, size, [offset |-> addr, bytes_written |-> 0, ptr |-> ptr])
        filled == ZeroFill(st.ptr, st.bytes_written, size)
    IN  [ptr |-> filled,
         bytes_written |-> st.bytes_written,
         thrown |-> (st.bytes_written = 0),
         err |-> IF st.bytes_written = 0 THEN DataUnavailError(addr, size) ELSE NoError]

(* DummyLoadImage::loadFill as defined in context.cpp: no count of copied    *)
(* bytes; the zero-fill starts at index `offset` (the address reached) and   *)
(* nothing is raised.                                                        *)
CtxLoadFill(img, ptr, size, addr) ==
    LET st == LoadScan(img, 1, size, [offset |-> addr, bytes_written |-> 0, ptr |-> ptr])
    IN  [ptr |-> ZeroFill(st.ptr, st.offset, size),
         bytes_written |-> st.bytes_written,
         thrown |-> FALSE,
         err |-> NoError]

----------------------------------------------------------------------------
(* RustLoadImage::loadFill, rust_load_image.cpp *)

\* Sections of img that hold address a, in list order.
Covering(img, a) ==
    { k \in 1..Len(img) :
        img[k].base_address <= a /\ a < img[k].base_address + Len(img[k].data) }

Covered(img, a) == Covering(img, a) # {}

FirstCovering(img, a) == CHOOSE k \in Covering(img, a) : \A m \in Covering(img, a) : k <= m

ByteAt(img, a) == LET k == FirstCovering(img, a)
                  IN  img[k].data[a - img[k].base_address + 1]

\* ImageFFI::load(vn, slice) -> usize: fills the slice from the image and
\* returns how many of the requested bytes the image holds.
ImageLoad(img, vn, ptr) ==
    [ptr |-> [i \in 1..Len(ptr) |->
                IF i <= vn.size
                THEN IF Covered(img, vn.offset + i - 1)
                     THEN ByteAt(img, vn.offset + i - 1) ELSE 0
                ELSE ptr[i]],
     result |-> Cardinality({ i \in 1..vn.size : Covered(img, vn.offset + i - 1) })]

RustLoadFill(img, ptr, size, addr) ==
    LET vn == [space |-> "ram", offset |-> addr, size |-> size]
        r == ImageLoad(img, vn, ptr)
    IN  [ptr |-> r.ptr,
         bytes_written |-> r.result,
         thrown |-> (r.result = 0),
         err |-> IF r.result = 0 THEN DataUnavailError(addr, size) ELSE NoError]

----------------------------------------------------------------------------
(* Specification of the load images: one image, any sequence of reads *)

ReadRecord(kind, addr, size, pre, r) ==
    [kind |-> kind, address |-> addr, size |-> size, pre |-> pre,
     ptr |-> r.ptr, thrown |-> r.thrown, err |-> r.err,
     bytes_written |-> r.bytes_written]

NoRead == [kind |-> "none"]

InitLoad ==
    /\ image \in Images
    /\ lastRead = NoRead
    /\ ops = <<>>
    /\ emitted = <<>>
    /\ iaddr = [space |-> "ram", offset |-> 0]
    /\ orch = <<>>
    /\ call = [pc |-> "idle"]
    /\ asm = [mnem |-> "", body |-> <<>>]
    /\ result = [status |-> "none"]
    /\ ref = [who |-> -1]
    /\ failedSince = FALSE
    /\ FfiIdle

\* One loadFill call at a time: the caller hands in a buffer and consumes it
\* (Release) before the next call.
DummyRead ==
    \E addr \in 0..AddrMax, size \in 1..MaxSize :
      \E pre \in Buffers(size) :
        /\ lastRead = NoRead
        /\ lastRead' = ReadRecord("dummy", addr, size, pre,
                                  DummyLoadFill(image, pre, size, addr))
        /\ UNCHANGED <<ffiVars, image, sinkVars, decodeVars>>

CtxRead ==
    \E addr \in 0..AddrMax, size \in 1..MaxSize :
      \E pre \in Buffers(size) :
        /\ lastRead = NoRead
        /\ lastRead' = ReadRecord("ctx", addr, size, pre,
                                  CtxLoadFill(image, pre, size, addr))
        /\ UNCHANGED <<ffiVars, image, sinkVars, decodeVars>>

RustRead ==
    \E addr \in 0..AddrMax, size \in 1..MaxSize :
      \E pre \in Buffers(size) :
        /\ lastRead = NoRead
        /\ lastRead' = ReadRecord("rust", addr, size, pre,
                                  RustLoadFill(image, pre, size, addr))
        /\ UNCHANGED <<ffiVars, image, sinkVars, decodeVars>>

Release ==
    /\ lastRead # NoRead
    /\ lastRead' = NoRead
    /\ UNCHANGED <<ffiVars, image, sinkVars, decodeVars>>

NextLoad == DummyRead \/ CtxRead \/ RustRead \/ Release

SpecLoad == InitLoad /\ [][NextLoad]_vars

----------------------------------------------------------------------------
(* The p-code sink: PcodeCacher::dump (sleigh_image.cpp, context.cpp,        *)
(* image_context.cpp) and JinglePcodeEmitter::dump, which share one body     *)

\* most input varnodes in one dump callback (isize)
MaxInputs == 2
\* most dump callbacks into one sink
MaxOps == 2

\* ghidra::AddrSpace* values; NullSpace is the null pointer.
NullSpace == "null"
CodeSpaces == {"ram", "rom"}
\* ghidra::VarnodeData* outvar == nullptr
NullPtr == [ptr |-> "nullptr"]

\* The varnodes the engine passes as inputs.
InputVarnodes ==
    { [space |-> "register", offset |-> 8, size |-> 4],
      [space |-> "const", offset |-> 1, size |-> 1] }

\* The values of ghidra::VarnodeData *outvar: null, a varnode whose space is
\* null, a zero-sized varnode in a valid space, an ordinary varnode.
OutputVarnodes ==
    { NullPtr,
      [space |-> NullSpace, offset |-> 0, size |-> 0],
      [space |-> "unique", offset |-> 16, size |-> 0],
      [space |-> "register", offset |-> 8, size |-> 4] }

InputSeqs == UNION { [1..n -> InputVarnodes] : n \in 0..MaxInputs }

OpCodes == {"COPY"}

\* The arguments of one dump callback; isize is Len(vars).
Callbacks(addr) ==
    [addr : {addr}, opc : OpCodes, outvar : OutputVarnodes, vars : InputSeqs]

\* std::make_unique<AddrSpaceHandle>(space): a handle wraps the pointer; a
\* default-constructed std::unique_ptr holds none.
AddrSpaceHandle(space) == [handle |-> space]
NoHandle == [handle |-> "none"]

\* What the offset and size of a default-initialised VarnodeInfoFFI may hold:
\* `RawPcodeOp op;` leaves them unset.
Junk == { [offset |-> 0, size |-> 0], [offset |-> 255, size |-> 255] }

\* info.space / info.size / info.offset of one input
InputInfo(vn) ==
    [space |-> AddrSpaceHandle(vn.space), offset |-> vn.offset, size |-> vn.size]

\* A test that also looks at the size.
HasOutputSized(outvar) ==
    outvar # NullPtr /\ outvar.space # NullSpace /\ outvar.size # 0

\* if (outvar != nullptr && outvar->space != nullptr)
HasOutput(outvar) == outvar # NullPtr /\ outvar.space # NullSpace

\* op.space is assigned inside the loop over the inputs.
OpSpace(cb) == IF Len(cb.vars) > 0 THEN AddrSpaceHandle(cb.addr.space) ELSE NoHandle

\* The RawPcodeOp built by one dump callback.
RawPcodeOp(cb, junk) ==
    [op |-> cb.opc,
     has_output |-> HasOutput(cb.outvar),
     output |-> IF HasOutput(cb.outvar)
                THEN [space |-> AddrSpaceHandle(cb.outvar.space),
                      offset |-> cb.outvar.offset,
                      size |-> cb.outvar.size]
                ELSE [space |-> NoHandle, offset |-> junk.offset, size |-> junk.size],
     space |-> OpSpace(cb),
     inputs |-> [i \in 1..Len(cb.vars) |-> InputInfo(cb.vars[i])]]

\* A sink that puts the new op in front.
DumpFront(sink, cb, junk) == <<RawPcodeOp(cb, junk)>> \o sink

\* dump: ops.emplace_back(op)
Dump(sink, cb, junk) == Append(sink, RawPcodeOp(cb, junk))

(* Specification of one sink: constructed empty for the decode of one       *)
(* instruction, then any sequence of dump callbacks.                        *)
InitSink ==
    /\ image = <<>>
    /\ lastRead = NoRead
    /\ ops = <<>>
    /\ emitted = <<>>
    /\ iaddr \in [space : CodeSpaces, offset : {0}]
    /\ orch = <<>>
    /\ call = [pc |-> "idle"]
    /\ asm = [mnem |-> "", body |-> <<>>]
    /\ result = [status |-> "none"]
    /\ ref = [who |-> -1]
    /\ failedSince = FALSE
    /\ FfiIdle

DumpCall ==
    \E cb \in Callbacks(iaddr), junk \in Junk :
        /\ Len(emitted) < MaxOps
        /\ ops' = Dump(ops, cb, junk)
        /\ emitted' = Append(emitted, cb)
        /\ UNCHANGED <<ffiVars, loadVars, iaddr, decodeVars>>

NextSink == DumpCall

SpecSink == InitSink /\ [][NextSink]_vars

----------------------------------------------------------------------------
(* The decoder engine (ghidra::Sleigh) as SleighImage and ContextFFI use it  *)

\* bytes the engine asks the load image for when it parses at an address
Window == 2
\* SleighImage objects that may exist at once
MaxOrch == 1
\* highest offset handed to get_one_instruction
MaxOffset == 2

\* Machine-code images: one section; two contiguous sections; an instruction
\* the engine cannot lift followed by an undefined byte; a section that
\* starts above address 0.
CodeImages ==
    { << [base_address |-> 0, data |-> <<2, 1>>] >>,
      << [base_address |-> 0, data |-> <<1>>], [base_address |-> 1, data |-> <<2>>] >>,
      << [base_address |-> 0, data |-> <<3, 0>>] >>,
      << [base_address |-> 1, data |-> <<2, 3>>] >> }

\* What the engine's parse buffer may hold before loadFill writes to it.
StaleBytes == {0, 1}
EngineBuffers == [1..Window -> StaleBytes]

\* ghidra::BadDataError / ghidra::UnimplError
DecodeError == [kind |-> "DecodeError"]

\* The loaded processor specification: what the engine makes of the bytes
\* at an address. First byte 1: a one-byte instruction without p-code; 2: a
\* two-byte instruction whose operand is the second byte; 3: an instruction
\* that disassembles but whose p-code is unimplemented; else no match.
Parse(buf) ==
    CASE buf[1] = 1 ->
           [ok |-> TRUE, length |-> 1, mnem |-> "NOP", body |-> <<>>,
            pcode |-> <<>>, unimpl |-> FALSE]
      [] buf[1] = 2 ->
           [ok |-> TRUE, length |-> 2, mnem |-> "MOV", body |-> <<buf[2]>>,
            pcode |-> << [opc |-> "COPY",
                          outvar |-> [space |-> "register", offset |-> 8, size |-> 4],
                          vars |-> << [space |-> "const", offset |-> buf[2], size |-> 4] >>] >>,
            unimpl |-> FALSE]
      [] buf[1] = 3 ->
           [ok |-> TRUE, length |-> 1, mnem |-> "TRAP", body |-> <<>>,
            pcode |-> << [opc |-> "CALLOTHER", outvar |-> NullPtr,
                          vars |-> << [space |-> "const", offset |-> 0, size |-> 4] >>] >>,
            unimpl |-> TRUE]
      [] OTHER -> [ok |-> FALSE]

NoCache == [addr |-> -1]

\* The address-space and register catalogs the engine loads from the
\* processor specification.
Catalog ==
    [spaces |-> <<"const", "unique", "ram", "register">>,
     registers |-> { [name |-> "r0", space |-> "register", offset |-> 8, size |-> 4] }]

\* loader->loadFill(buf, size, addr): virtual call into the bound load image
LoaderFill(loader, pre, size, addr) ==
    IF loader.kind = "ctx"
    THEN CtxLoadFill(loader.img, pre, size, addr)
    ELSE DummyLoadFill(loader.img, pre, size, addr)

\* The engine's parse of the instruction at addr: the cached one, or a fresh
\* read of the load image into a buffer that held pre.
ObtainContext(sl, addr, pre) ==
    IF sl.cache.addr = addr
    THEN [sl |-> sl, thrown |-> FALSE, err |-> NoError, buf |-> sl.cache.buf]
    ELSE LET r == LoaderFill(sl.loader, pre, Window, addr)
         IN  IF r.thrown
             THEN [sl |-> [sl EXCEPT !.cache = NoCache], thrown |-> TRUE,
                   err |-> r.err, buf |-> r.ptr]
             ELSE IF ~Parse(r.ptr).ok
             THEN [sl |-> [sl EXCEPT !.cache = NoCache], thrown |-> TRUE,
                   err |-> DecodeError, buf |-> r.ptr]
             ELSE [sl |-> [sl EXCEPT !.cache = [addr |-> addr, buf |-> r.ptr]],
                   thrown |-> FALSE, err |-> NoError, buf |-> r.ptr]

\* Sleigh::reset(loader, context): binds the load image and drops the caches.
SleighReset(sl, loader) ==
    [loader |-> loader, cache |-> NoCache, catalog |-> sl.catalog]

----------------------------------------------------------------------------
(* ContextFFI and SleighImage: construction and get_one_instruction *)

\* ContextFFI::ContextFFI(slaPath, image): a Sleigh over its own load image.
ContextFFICtor(img) ==
    [loader |-> [kind |-> "ctx", img |-> img], cache |-> NoCache, catalog |-> Catalog]

\* A constructor that keeps the copied engine as it is.
SleighImageCtorNoReset(img, sl) == sl

\* SleighImage::SleighImage(Image img, ghidra::Sleigh sl): a copy of the
\* engine, reset onto a new DummyLoadImage(img).
SleighImageCtor(img, sl) == SleighReset(sl, [kind |-> "dummy", img |-> img])

OrchIds == 0..MaxOrch
NoSleigh ==
    [loader |-> [kind |-> "none", img |-> <<>>], cache |-> NoCache,
     catalog |-> [spaces |-> <<>>, registers |-> {}]]
Dead == [alive |-> FALSE, bound |-> <<>>, sl |-> NoSleigh]

Idle == [pc |-> "idle"]
NoRef == [who |-> -1]

\* Sinks kept from the previous call.
ReusedSinks(oldOps, oldAsm) == [ops |-> oldOps, asm |-> oldAsm]

\* PcodeCacher pcode; AssemblyCacher assembly;  (locals of the call)
FreshSinks(oldOps, oldAsm) == [ops |-> <<>>, asm |-> [mnem |-> "", body |-> <<>>]]

\* AssemblyCacher::dump
AssemblyDump(sink, mnem, body) == [mnem |-> mnem, body |-> body]

InitDecode ==
    /\ image = <<>>
    /\ lastRead = NoRead
    /\ ops = <<>>
    /\ emitted = <<>>
    /\ iaddr = [space |-> "ram", offset |-> 0]
    /\ \E img \in CodeImages :
         orch = [o \in OrchIds |->
                   IF o = 0
                   THEN [alive |-> TRUE, bound |-> img, sl |-> ContextFFICtor(img)]
                   ELSE Dead]
    /\ call = Idle
    /\ asm = [mnem |-> "", body |-> <<>>]
    /\ result = [status |-> "none"]
    /\ ref = NoRef
    /\ failedSince = FALSE
    /\ FfiIdle

\* ContextFFI::makeImageContext(img): a new SleighImage from the context's engine
MakeImageContext ==
    \E o \in 1..MaxOrch, img \in CodeImages :
        /\ call.pc = "idle"
        /\ ~orch[o].alive
        /\ orch' = [orch EXCEPT ![o] = [alive |-> TRUE, bound |-> img,
                                        sl |-> SleighImageCtor(img, orch[0].sl)]]
        /\ UNCHANGED <<ffiVars, loadVars, sinkVars, call, asm, result, ref, failedSince>>

\* The owner drops its SleighImage.
DropImage ==
    \E o \in 1..MaxOrch :
        /\ call.pc = "idle"
        /\ orch[o].alive
        /\ orch' = [orch EXCEPT ![o] = Dead]
        /\ ref' = IF ref.who = o THEN NoRef ELSE ref
        /\ failedSince' = IF ref.who = o THEN FALSE ELSE failedSince
        /\ UNCHANGED <<ffiVars, loadVars, sinkVars, call, asm, result>>

\* get_one_instruction(offset), up to the construction of the address
Begin ==
    \E o \in OrchIds, x \in 0..MaxOffset :
        /\ call.pc = "idle"
        /\ orch[o].alive
        /\ ops' = FreshSinks(ops, asm).ops
        /\ asm' = FreshSinks(ops, asm).asm
        /\ emitted' = <<>>
        /\ iaddr' = [space |-> "ram", offset |-> x]
        /\ call' = [pc |-> "asm", who |-> o, offset |-> x, k |-> 0,
                    tmpl |-> <<>>, unimpl |-> FALSE,
                    asmcb |-> [mnem |-> "", body |-> <<>>]]
        /\ UNCHANGED <<ffiVars, loadVars, orch, result, ref, failedSince>>

\* An exception leaves get_one_instruction: nothing is returned.
Thrown(err) ==
    /\ result' = [status |-> "error", who |-> call.who, offset |-> call.offset,
                  err |-> err]
    /\ call' = Idle
    /\ failedSince' = (failedSince \/ ref.who = call.who)

\* sl.printAssembly(assembly, a)
AsmPass ==
    /\ call.pc = "asm"
    /\ \E pre \in EngineBuffers :
         LET r == ObtainContext(orch[call.who].sl, call.offset, pre)
         IN  /\ orch' = [orch EXCEPT ![call.who].sl = r.sl]
             /\ IF r.thrown
                THEN Thrown(r.err) /\ UNCHANGED asm
                ELSE /\ asm' = AssemblyDump(asm, Parse(r.buf).mnem, Parse(r.buf).body)
                     /\ call' = [call EXCEPT !.pc = "pcode",
                                             !.asmcb = [mnem |-> Parse(r.buf).mnem,
                                                        body |-> Parse(r.buf).body]]
                     /\ UNCHANGED <<result, failedSince>>
    /\ UNCHANGED <<ffiVars, loadVars, sinkVars, ref>>

\* sl.oneInstruction(pcode, a): the engine builds the ops of the instruction
PcodeBegin ==
    /\ call.pc = "pcode"
    /\ \E pre \in EngineBuffers :
         LET r == ObtainContext(orch[call.who].sl, call.offset, pre)
         IN  /\ orch' = [orch EXCEPT ![call.who].sl = r.sl]
             /\ IF r.thrown
                THEN Thrown(r.err)
                ELSE /\ call' = [call EXCEPT !.pc = "emit",
                                             !.tmpl = Parse(r.buf).pcode,
                                             !.unimpl = Parse(r.buf).unimpl]
                     /\ UNCHANGED <<result, failedSince>>
    /\ UNCHANGED <<ffiVars, loadVars, sinkVars, asm, ref>>

\* sl.oneInstruction(pcode, a): one PcodeCacher::dump callback
PcodeEmit ==
    /\ call.pc = "emit"
    /\ call.k < Len(call.tmpl)
    /\ \E junk \in Junk :
         LET t == call.tmpl[call.k + 1]
             cb == [addr |-> iaddr, opc |-> t.opc, outvar |-> t.outvar, vars |-> t.vars]
         IN  /\ ops' = Dump(ops, cb, junk)
             /\ emitted' = Append(emitted, cb)
    /\ call' = [call EXCEPT !.k = call.k + 1]
    /\ UNCHANGED <<ffiVars, loadVars, iaddr, orch, asm, result, ref, failedSince>>

\* sl.oneInstruction(pcode, a): the engine gives up part-way
PcodeUnimpl ==
    /\ call.pc = "emit"
    /\ call.k = Len(call.tmpl)
    /\ call.unimpl
    /\ Thrown(DecodeError)
    /\ UNCHANGED <<ffiVars, loadVars, sinkVars, orch, asm, ref>>

\* sl.instructionLength(a), then the InstructionFFI is put together and returned
LengthReturn ==
    /\ call.pc = "emit"
    /\ call.k = Len(call.tmpl)
    /\ ~call.unimpl
    /\ \E pre \in EngineBuffers, remember \in BOOLEAN :
         LET r == ObtainContext(orch[call.who].sl, call.offset, pre)
             i == [address |-> call.offset,
                   length |-> Parse(r.buf).length,
                   disassembly |-> [mnemonic |-> asm.mnem, args |-> asm.body],
                   ops |-> ops]
         IN  /\ orch' = [orch EXCEPT ![call.who].sl = r.sl]
             /\ IF r.thrown
                THEN Thrown(r.err) /\ UNCHANGED ref
                ELSE /\ result' = [status |-> "ok", who |-> call.who,
                                   offset |-> call.offset, instr |-> i,
                                   emitted |-> emitted, asmcb |-> call.asmcb,
                                   bound |-> orch[call.who].bound]
                     /\ call' = Idle
                     /\ ref' = IF remember /\ ref = NoRef
                               THEN [who |-> call.who, offset |-> call.offset, instr |-> i]
                               ELSE ref
                     /\ UNCHANGED failedSince
    /\ UNCHANGED <<ffiVars, loadVars, sinkVars, asm>>

Next ==
    \/ MakeImageContext
    \/ DropImage
    \/ Begin
    \/ AsmPass
    \/ PcodeBegin
    \/ PcodeEmit
    \/ PcodeUnimpl
    \/ LengthReturn

Spec == InitDecode /\ [][Next]_vars

----------------------------------------------------------------------------
(* Claims about the segmented image *)

\* The requested range [address, address + size) of the last read.
Requested == lastRead.address .. (lastRead.address + lastRead.size - 1)

NoCoverage == \A a \in Requested : ~Covered(image, a)

PartialCoverage ==
    /\ \E a \in Requested : Covered(image, a)
    /\ \E a \in Requested : ~Covered(image, a)

\* Sections k and m of img share no address.
Disjoint(img, k, m) ==
    \/ img[k].base_address + Len(img[k].data) <= img[m].base_address
    \/ img[m].base_address + Len(img[m].data) <= img[k].base_address

NonOverlapping(img) ==
    \A k, m \in 1..Len(img) : k # m => Disjoint(img, k, m)

\* C1: a read of length > 0 none of whose bytes lies in a section fails with
\* DataUnavailError carrying the address and the length, for
\* DummyLoadImage::loadFill and for RustLoadImage::loadFill.
C1_ZeroCoverageFails ==
    (lastRead.kind \in {"dummy", "rust"} /\ NoCoverage)
        => /\ lastRead.thrown
           /\ lastRead.err = DataUnavailError(lastRead.address, lastRead.size)

\* C1 witness: DummyLoadImage over an image that has sections raised on an
\* unmapped range.
C1_Witness ==
    /\ lastRead.kind = "dummy"
    /\ Len(image) > 0
    /\ NoCoverage
    /\ lastRead.thrown

\* C2: a read with partial coverage succeeds, and every requested byte that
\* no section covers is 0 in the output.
C2_PartialCoverageSucceeds ==
    (lastRead.kind = "dummy" /\ PartialCoverage)
        => /\ ~lastRead.thrown
           /\ \A i \in 1..lastRead.size :
                 ~Covered(image, lastRead.address + i - 1) => lastRead.ptr[i] = 0

\* C3: over pairwise non-overlapping sections in any list order, every
\* requested byte that a section covers is copied to output index
\* (byte address - address).
C3_CoveredBytesCopied ==
    (lastRead.kind = "dummy" /\ NonOverlapping(image))
        => \A i \in 1..lastRead.size :
             Covered(image, lastRead.address + i - 1)
                 => /\ ~lastRead.thrown
                    /\ lastRead.ptr[i] = ByteAt(image, lastRead.address + i - 1)

----------------------------------------------------------------------------
(* Claims about the p-code sink *)

\* The engine passed an output varnode: a non-null pointer to a varnode whose
\* space is not null.
OutputPassed(cb) ==
    IF cb.outvar = NullPtr THEN FALSE ELSE cb.outvar.space # NullSpace

\* C4: every op in the sink records the address space of the instruction
\* address given to its dump callback, whatever its number of inputs.
C4_OpSpaceIsInstructionSpace ==
    \A k \in 1..Len(ops) :
        k <= Len(emitted) => ops[k].space = [handle |-> emitted[k].addr.space]

\* C5: has_output is false exactly when no output varnode was passed (null
\* pointer or null space); a zero-sized output in a valid space is captured
\* with has_output true, size 0, and its offset and space unchanged.
C5_NoOutputIsNotZeroSized ==
    \A k \in 1..Len(ops) :
        k <= Len(emitted) =>
          LET cb == emitted[k] IN
            /\ ops[k].has_output = OutputPassed(cb)
            /\ (OutputPassed(cb) /\ cb.outvar.size = 0)
                  => /\ ops[k].output.size = 0
                     /\ ops[k].output.offset = cb.outvar.offset
                     /\ ops[k].output.space = [handle |-> cb.outvar.space]

\* C5 witness: the sink holds an op with a zero-sized output and an op with
\* no output.
C5_Witness ==
    /\ \E k \in 1..Len(ops) :
          /\ OutputPassed(emitted[k]) /\ emitted[k].outvar.size = 0
          /\ ops[k].has_output /\ ops[k].output.size = 0
    /\ \E k \in 1..Len(ops) :
          ~OutputPassed(emitted[k]) /\ ~ops[k].has_output /\ ops[k].output.size = 0

\* The k-th op of the sink is the one built from the k-th callback.
OpsFollowCallbacks ==
    /\ Len(ops) = Len(emitted)
    /\ \A k \in 1..Len(ops) :
          /\ ops[k].op = emitted[k].opc
          /\ Len(ops[k].inputs) = Len(emitted[k].vars)
          /\ \A i \in 1..Len(ops[k].inputs) :
                /\ ops[k].inputs[i].space = [handle |-> emitted[k].vars[i].space]
                /\ ops[k].inputs[i].offset = emitted[k].vars[i].offset
                /\ ops[k].inputs[i].size = emitted[k].vars[i].size

\* A step of the sink keeps every entry it already holds.
OpsOnlyGrow ==
    /\ Len(ops') >= Len(ops)
    /\ \A k \in 1..Len(ops) : ops'[k] = ops[k]

\* C6: the sink is append-only and order-preserving: after n callbacks it
\* holds n ops, the k-th built from the k-th callback with its inputs in
\* order, and no entry is ever modified or removed.
C6_SinkAppendOnly == []OpsFollowCallbacks /\ [][OpsOnlyGrow]_vars

\* C6 witness: two callbacks with different input lists were captured, the
\* second with two different inputs.
C6_Witness ==
    /\ Len(ops) = 2
    /\ emitted[1].vars # emitted[2].vars
    /\ Len(ops[2].inputs) = 2
    /\ ops[2].inputs[1] # ops[2].inputs[2]

----------------------------------------------------------------------------
(* Claims about get_one_instruction *)

\* An Instruction as its consumer sees it: the output of an op without
\* output is not looked at.
OpView(op) ==
    IF op.has_output THEN op
    ELSE [op EXCEPT !.output = [space |-> NoHandle, offset |-> 0, size |-> 0]]

InstrView(i) == [i EXCEPT !.ops = [k \in 1..Len(i.ops) |-> OpView(i.ops[k])]]

\* The ops list lst holds one op per callback of cbs, in order.
BuiltFrom(lst, cbs) ==
    /\ Len(lst) = Len(cbs)
    /\ \A k \in 1..Len(lst) :
          /\ lst[k].op = cbs[k].opc
          /\ Len(lst[k].inputs) = Len(cbs[k].vars)
          /\ \A n \in 1..Len(lst[k].inputs) :
                lst[k].inputs[n].offset = cbs[k].vars[n].offset

\* C7: in any sequence of calls, failed ones included, the sinks of a call
\* and the Instruction it returns hold only what the engine emitted during
\* that call.
C7_NoCarryOver ==
    /\ call.pc # "idle" => BuiltFrom(ops, emitted)
    /\ result.status = "ok" =>
          /\ BuiltFrom(result.instr.ops, result.emitted)
          /\ result.instr.disassembly.mnemonic = result.asmcb.mnem
          /\ result.instr.disassembly.args = result.asmcb.body

\* C7 witness: a call returned p-code after an earlier call on the same
\* orchestrator returned p-code and a later one failed.
C7_Witness ==
    /\ result.status = "ok"
    /\ Len(result.instr.ops) > 0
    /\ ref.who = result.who
    /\ Len(ref.instr.ops) > 0
    /\ failedSince

\* C8: two calls for the same offset on the same SleighImage, with any calls
\* in between, return equal Instructions.
C8_Idempotent ==
    (result.status = "ok" /\ result.who # 0 /\ ref.who = result.who
       /\ ref.offset = result.offset)
        => InstrView(result.instr) = InstrView(ref.instr)

\* C9: a failed call leaves the catalogs as loaded, and a later call on the
\* SleighImage returns what a call for that offset returned before the
\* failure.
C9_FailureLeavesNoTrace ==
    /\ \A o \in OrchIds : orch[o].alive => orch[o].sl.catalog = Catalog
    /\ (result.status = "ok" /\ result.who # 0 /\ failedSince
           /\ ref.who = result.who /\ ref.offset = result.offset)
          => InstrView(result.instr) = InstrView(ref.instr)

\* The load image kind of orchestrator o.
LoaderKind(o) == IF o = 0 THEN "ctx" ELSE "dummy"

\* buf is what a read of Window bytes at addr from img leaves in some buffer.
ReadOf(kind, img, addr, buf) ==
    \E pre \in EngineBuffers :
        LET r == LoaderFill([kind |-> kind, img |-> img], pre, Window, addr)
        IN  ~r.thrown /\ r.ptr = buf

\* Every orchestrator's engine reads the image it was bound to, and what it
\* has cached was read from that image.
ServedByOwnImage ==
    \A o \in OrchIds :
        orch[o].alive =>
          /\ orch[o].sl.loader.img = orch[o].bound
          /\ orch[o].sl.cache # NoCache
                => ReadOf(LoaderKind(o), orch[o].bound, orch[o].sl.cache.addr,
                          orch[o].sl.cache.buf)

\* A returned Instruction is the parse of a read of the image its
\* orchestrator was bound to.
ResultFromOwnImage ==
    result.status = "ok" =>
        \E buf \in [1..Window -> 0..3] :
            /\ ReadOf(LoaderKind(result.who), result.bound, result.offset, buf)
            /\ Parse(buf).ok
            /\ result.instr.length = Parse(buf).length
            /\ result.instr.disassembly.mnemonic = Parse(buf).mnem
            /\ result.instr.disassembly.args = Parse(buf).body

\* Binding another image leaves the living orchestrators on their images.
OthersKeepImage ==
    \A o \in OrchIds :
        (orch[o].alive /\ orch'[o].alive)
            => /\ orch'[o].bound = orch[o].bound
               /\ orch'[o].sl.loader = orch[o].sl.loader

MaxSpaces == 3
\* most registers of a loaded processor specification
MaxRegs == 3
\* most getRegisters calls in one run
MaxListings == 2

\* ghidra::AddrSpace objects: ptr is the object's address (its native
\* identity); a space's index is its position in the table, from 0.
AllSpaces ==
    << [name |-> "ram", ptr |-> "0x10"],
       [name |-> "register", ptr |-> "0x20"],
       [name |-> "unique", ptr |-> "0x30"],
       [name |-> "const", ptr |-> "0x40"],
       [name |-> "io", ptr |-> "0x50"] >>

SpaceTables == { SubSeq(AllSpaces, 1, n) : n \in 2..Min(MaxSpaces, Len(AllSpaces)) }

\* A pointer value that is neither null nor the address of a space.
WildPtr == "0xbad"

\* The registers a processor specification may bind: two of one space and
\* offset with different sizes, one at another offset, one in another space.
AllRegisters ==
    { [vn |-> [space |-> "0x20", offset |-> 0, size |-> 4], name |-> "eax"],
      [vn |-> [space |-> "0x20", offset |-> 0, size |-> 2], name |-> "ax"],
      [vn |-> [space |-> "0x20", offset |-> 4, size |-> 4], name |-> "ebx"],
      [vn |-> [space |-> "0x10", offset |-> 0, size |-> 1], name |-> "mmio"] }

\* The orders in which the engine may have inserted n registers.
InsertionOrders(n) ==
    { s \in [1..n -> AllRegisters] : \A i, j \in 1..n : i # j => s[i] # s[j] }

RegisterTables ==
    UNION { InsertionOrders(n) : n \in 0..Min(MaxRegs, Cardinality(AllRegisters)) }

\* AddrSpaceManager::numSpaces()
NumSpaces(tbl) == Len(tbl)

\* AddrSpaceManager::getSpace(i): baselist[i], not range-checked; outside the
\* table the read yields beyond, a null or a wild pointer.
NativeGetSpace(tbl, i, beyond) ==
    IF 0 <= i /\ i < Len(tbl) THEN tbl[i + 1].ptr ELSE beyond

\* AddrSpaceManager::getSpaceByName(nm): null when no space has the name.
NativeGetSpaceByName(tbl, nm) ==
    IF \E k \in 1..Len(tbl) : tbl[k].name = nm
    THEN tbl[CHOOSE k \in 1..Len(tbl) : tbl[k].name = nm].ptr
    ELSE NullSpace

\* AddrSpace::getIndex() of the space at ptr
SpaceIndex(tbl, ptr) == (CHOOSE k \in 1..Len(tbl) : tbl[k].ptr = ptr) - 1

\* How a wrapped function ends: it returns a value or an exception leaves it.
Returned(v) == [thrown |-> FALSE, value |-> v]
Raised(class, msg) == [thrown |-> TRUE, class |-> class, msg |-> msg]

\* AddrSpaceManagerHandle::getSpaceByName
getSpaceByName(tbl, nm) == Returned(AddrSpaceHandle(NativeGetSpaceByName(tbl, nm)))

\* AddrSpaceManagerHandle::getSpaceByIndex, SleighImage::getSpaceByIndex,
\* ContextFFI::getSpaceByIndex
getSpaceByIndex(tbl, idx, beyond) == Returned(AddrSpaceHandle(NativeGetSpace(tbl, idx, beyond)))

\* A lookup by native identity that reports a miss as a LowlevelError.
getSpaceFromPointerRecoverable(tbl, idx) ==
    LET hits == { i \in 0..(NumSpaces(tbl) - 1) : idx = NativeGetSpace(tbl, i, NullSpace) }
    IN  IF hits # {}
        THEN Returned(AddrSpaceHandle(idx))
        ELSE Raised("LowlevelError", "Something horrible has happened")

\* AddrSpaceManagerHandle::getSpaceFromPointer: the first table entry equal to
\* the pointer, else `throw "Something horrible has happened";`
getSpaceFromPointer(tbl, idx) ==
    LET hits == { i \in 0..(NumSpaces(tbl) - 1) : idx = NativeGetSpace(tbl, i, NullSpace) }
    IN  IF hits # {}
        THEN LET i == CHOOSE h \in hits : \A g \in hits : h <= g
             IN  Returned(AddrSpaceHandle(NativeGetSpace(tbl, i, NullSpace)))
        ELSE Raised("const char*", "Something horrible has happened")

\* VarnodeData::operator< : the key order of std::map<VarnodeData, string>,
\* a strict total order over (space index, offset, size).
VarnodeLess(tbl, a, b) ==
    IF a.space # b.space THEN SpaceIndex(tbl, a.space) < SpaceIndex(tbl, b.space)
    ELSE IF a.offset # b.offset THEN a.offset < b.offset
    ELSE a.size < b.size

\* std::map insertion: the entries stay in key order.
MapInsert(tbl, m, el) ==
    LET below == { k \in 1..Len(m) : VarnodeLess(tbl, m[k].vn, el.vn) }
        n == Cardinality(below)
    IN  SubSeq(m, 1, n) \o <<el>> \o SubSeq(m, n + 1, Len(m))

\* sl.getAllRegisters(reglist): the engine's register table as a std::map,
\* whatever the order the engine inserted the registers in.
RECURSIVE GetAllRegisters(_, _, _)
GetAllRegisters(tbl, inserted, k) ==
    IF k = 0 THEN <<>>
    ELSE MapInsert(tbl, GetAllRegisters(tbl, inserted, k - 1), inserted[k])

\* varnodeToFFI
varnodeToFFI(vn) ==
    [space |-> AddrSpaceHandle(vn.space), size |-> vn.size, offset |-> vn.offset]

\* collectRegInfo
collectRegInfo(el) == [varnode |-> varnodeToFFI(el.vn), name |-> el.name]

\* A listing in the order the engine inserted the registers.
getRegistersUnordered(cat) ==
    [k \in 1..Len(cat.registers) |-> collectRegInfo(cat.registers[k])]

\* SleighImage::getRegisters, ContextFFI::getRegisters
getRegisters(cat) ==
    LET reglist == GetAllRegisters(cat.spaces, cat.registers, Len(cat.registers))
    IN  [k \in 1..Len(reglist) |-> collectRegInfo(reglist[k])]

(* rust::behavior::trycatch, exception.h *)

\* The exception classes trycatch has a handler for.
Caught == {"LowlevelError", "DecoderError", "DataUnavailError", "std::exception"}

\* What may leave a wrapped function: a handled class or a thrown C string.
ExceptionClasses == Caught \cup {"const char*"}
Messages == {"Unable to load 2 bytes at r0x0", "bad"}

\* A wrapper that drops the failure.
trycatchSwallow(func) ==
    [func |-> func, runs |-> 1, fails |-> <<>>, terminated |-> FALSE]

\* trycatch(func, fail): func has run once and ended as `func`; a handled
\* exception is passed to fail, any other leaves a noexcept function.
trycatch(func) ==
    [func |-> func,
     runs |-> 1,
     fails |-> IF func.thrown /\ func.class \in Caught THEN <<func.msg>> ELSE <<>>,
     terminated |-> func.thrown /\ func.class \notin Caught]

BridgeCall(op, arg, func) == [op |-> op, arg |-> arg] @@ trycatch(func)

\* std::terminate has ended the process.
Terminated == bridge # NoCall /\ bridge.terminated

InitCatalog ==
    /\ image = <<>>
    /\ lastRead = NoRead
    /\ ops = <<>>
    /\ emitted = <<>>
    /\ iaddr = [space |-> "ram", offset |-> 0]
    /\ orch = <<>>
    /\ call = Idle
    /\ asm = [mnem |-> "", body |-> <<>>]
    /\ result = [status |-> "none"]
    /\ ref = NoRef
    /\ failedSince = FALSE
    /\ native \in [spaces : SpaceTables, registers : RegisterTables]
    /\ bridge = NoCall
    /\ listing = <<>>
    /\ params = NoParams
    /\ options = NoOptions

LookupNames == { AllSpaces[k].name : k \in 1..Len(AllSpaces) } \cup {"nope"}
LookupPointers == { AllSpaces[k].ptr : k \in 1..Len(AllSpaces) } \cup {NullSpace, WildPtr}

CallGetSpaceByName ==
    \E nm \in LookupNames :
        /\ ~Terminated
        /\ bridge' = BridgeCall("getSpaceByName", [name |-> nm],
                                getSpaceByName(native.spaces, nm))
        /\ UNCHANGED <<loadVars, sinkVars, decodeVars, native, listing, params, options>>

CallGetSpaceByIndex ==
    \E idx \in -1..(MaxSpaces + 1), beyond \in {NullSpace, WildPtr} :
        /\ ~Terminated
        /\ bridge' = BridgeCall("getSpaceByIndex", [idx |-> idx],
                                getSpaceByIndex(native.spaces, idx, beyond))
        /\ UNCHANGED <<loadVars, sinkVars, decodeVars, native, listing, params, options>>

CallGetSpaceFromPointer ==
    \E idx \in LookupPointers :
        /\ ~Terminated
        /\ bridge' = BridgeCall("getSpaceFromPointer", [ptr |-> idx],
                                getSpaceFromPointer(native.spaces, idx))
        /\ UNCHANGED <<loadVars, sinkVars, decodeVars, native, listing, params, options>>

CallGetRegisters ==
    /\ ~Terminated
    /\ Len(listing) < MaxListings
    /\ LET func == Returned(getRegisters(native))
       IN  /\ bridge' = BridgeCall("getRegisters", [none |-> TRUE], func)
           /\ listing' = Append(listing, func.value)
    /\ UNCHANGED <<loadVars, sinkVars, decodeVars, native, params, options>>

\* Any other bridged operation (construction, decode, register lookup): it
\* returns, or one of the exception classes leaves it.
CallOther ==
    \E func \in {Returned("done")}
                  \cup { Raised(c, m) : c \in ExceptionClasses, m \in Messages } :
        /\ ~Terminated
        /\ bridge' = BridgeCall("other", [none |-> TRUE], func)
        /\ UNCHANGED <<loadVars, sinkVars, decodeVars, native, listing, params, options>>

NextCatalog ==
    \/ CallGetSpaceByName
    \/ CallGetSpaceByIndex
    \/ CallGetSpaceFromPointer
    \/ CallGetRegisters
    \/ CallOther

SpecCatalog == InitCatalog /\ [][NextCatalog]_vars

(* compile, compile.cpp: the call of the specification compiler *)

\* most entries of params.defines
MaxDefines == 2

DefineNames == {"ARCH", "MODE"}
DefineValues == {"x86", "64"}

\* rust::Vec<DefinePair> defines
DefineLists ==
    UNION { [1..n -> [name : DefineNames, value : DefineValues]] : n \in 0..MaxDefines }

\* The eight boolean fields of CompileParams.
FlagRecords ==
    [unnecessary_pcode_warning : BOOLEAN, lenient_conflict : BOOLEAN,
     all_collision_warning : BOOLEAN, all_nop_warning : BOOLEAN,
     dead_temp_warning : BOOLEAN, enforce_local_keyword : BOOLEAN,
     large_temporary_warning : BOOLEAN, case_sensitive_register_names : BOOLEAN]

\* std::map operator[] assignment: defines[name] = value
MapPut(m, k, v) == [x \in (DOMAIN m) \cup {k} |-> IF x = k THEN v ELSE m[x]]

EmptyMap == [x \in {} |-> ""]

\* The loop over params.defines: name and value are both read from item.name.
RECURSIVE CollectDefines(_, _)
CollectDefines(items, k) ==
    IF k = 0 THEN EmptyMap
    ELSE LET item == items[k]
             name == item.name
             value == item.name
         IN  MapPut(CollectDefines(items, k - 1), name, value)

\* The arguments of compiler.setAllOptions(defines, ...), in call order.
SetAllOptions(p) ==
    [set |-> TRUE,
     defines |-> CollectDefines(p.defines, Len(p.defines)),
     flags |-> << p.flags.unnecessary_pcode_warning, p.flags.lenient_conflict,
                  p.flags.all_collision_warning, p.flags.all_nop_warning,
                  p.flags.dead_temp_warning, p.flags.enforce_local_keyword,
                  p.flags.large_temporary_warning,
                  p.flags.case_sensitive_register_names >>]

InitCompile ==
    /\ image = <<>>
    /\ lastRead = NoRead
    /\ ops = <<>>
    /\ emitted = <<>>
    /\ iaddr = [space |-> "ram", offset |-> 0]
    /\ orch = <<>>
    /\ call = Idle
    /\ asm = [mnem |-> "", body |-> <<>>]
    /\ result = [status |-> "none"]
    /\ ref = NoRef
    /\ failedSince = FALSE
    /\ native = NoCatalog
    /\ bridge = NoCall
    /\ listing = <<>>
    /\ params \in [defines : DefineLists, flags : FlagRecords]
    /\ options = NoOptions

\* compile(infile, outFile, params), up to compiler.run_compilation
Compile ==
    /\ options = NoOptions
    /\ options' = SetAllOptions(params)
    /\ UNCHANGED <<loadVars, sinkVars, decodeVars, native, bridge, listing, params>>

NextCompile == Compile

SpecCompile == InitCompile /\ [][NextCompile]_vars

(* The memcpy calls of one loadFill scan *)

\* The loop over img.sections seen as the list of its memcpy calls: the
\* section copied from, the first index read in its data and the byte count;
\* each call writes buffer indices 0 .. len - 1.
RECURSIVE Copies(_, _, _, _)
Copies(sections, k, size, offset) ==
    IF k > Len(sections) THEN <<>>
    ELSE LET section == sections[k]
             start == section.base_address
             end == start + Len(section.data)
         IN  IF start <= offset /\ offset < end
             THEN LET len == Min(size, end - offset)
                      start_idx == offset - start
                  IN  <<[section |-> k, start_idx |-> start_idx, len |-> len]>>
                      \o Copies(sections, k + 1, size, offset + len)
             ELSE Copies(sections, k + 1, size, offset)

(* Claims about the catalogs and the error-translation layer *)

SpacePointers(tbl) == { tbl[k].ptr : k \in 1..Len(tbl) }

\* The last call was a lookup by name or by index that no space matches.
LookupMisses ==
    \/ /\ bridge.op = "getSpaceByName"
       /\ \A k \in 1..Len(native.spaces) : native.spaces[k].name # bridge.arg.name
    \/ /\ bridge.op = "getSpaceByIndex"
       /\ ~(0 <= bridge.arg.idx /\ bridge.arg.idx < NumSpaces(native.spaces))

\* C11: a lookup by name or by index that no space matches fails with
\* NotFound, reported once through the error-translation layer, and no
\* lookup by name or index returns a handle that refers to no space.
C11_ResolveFailsWithNotFound ==
    /\ LookupMisses =>
         /\ bridge.func.thrown
         /\ bridge.func.class \in Caught
         /\ Len(bridge.fails) = 1
    /\ (bridge.op \in {"getSpaceByName", "getSpaceByIndex"} /\ ~bridge.func.thrown) =>
         bridge.func.value.handle \in SpacePointers(native.spaces)

NativeVarnode(info) ==
    [space |-> info.space.handle, offset |-> info.offset, size |-> info.size]

\* lst holds every register of the table once, in ascending key order.
IsEnumeration(lst, cat) ==
    /\ Len(lst) = Len(cat.registers)
    /\ \A k \in 1..Len(cat.registers) :
         Cardinality({ j \in 1..Len(lst) : lst[j] = collectRegInfo(cat.registers[k]) }) = 1
    /\ \A j \in 1..(Len(lst) - 1) :
         VarnodeLess(cat.spaces, NativeVarnode(lst[j].varnode),
                     NativeVarnode(lst[j + 1].varnode))

\* C13: every getRegisters call returns each register of the native table
\* exactly once in ascending order of (space index, offset, size), whatever
\* the insertion order, and all calls on the unchanged catalog return equal
\* sequences.
C13_RegisterEnumeration ==
    /\ \A i \in 1..Len(listing) : IsEnumeration(listing[i], native)
    /\ \A i, j \in 1..Len(listing) : listing[i] = listing[j]

\* C13 witness: two listings of three registers that the engine inserted in
\* another order than the one listed.
C13_Witness ==
    /\ Len(listing) = 2
    /\ Len(native.registers) = 3
    /\ listing[2] # getRegistersUnordered(native)

\* C14: a call through trycatch runs the operation once; a LowlevelError,
\* DecoderError, DataUnavailError or std::exception is reported by exactly
\* one fail call carrying its message; a normal return invokes no fail.
C14_ErrorPropagation ==
    bridge # NoCall =>
        /\ bridge.runs = 1
        /\ (bridge.func.thrown /\ bridge.func.class \in Caught) =>
             bridge.fails = <<bridge.func.msg>>
        /\ ~bridge.func.thrown => bridge.fails = <<>>

\* C14 witness: a DataUnavailError left the operation and was reported.
C14_Witness ==
    /\ bridge.op = "other"
    /\ bridge.func.thrown
    /\ bridge.func.class = "DataUnavailError"
    /\ Len(bridge.fails) = 1

(* Claims about the compiler call *)

\* The flags of p in the order the option set declares them.
DeclaredFlags(p) ==
    << p.flags.unnecessary_pcode_warning, p.flags.lenient_conflict,
       p.flags.all_collision_warning, p.flags.all_nop_warning,
       p.flags.dead_temp_warning, p.flags.enforce_local_keyword,
       p.flags.large_temporary_warning, p.flags.case_sensitive_register_names >>

\* C15: the map passed to setAllOptions holds name -> value for every entry
\* of params.defines, and the eight flags are passed unchanged in declared
\* order.
C15_DefinesPassedThrough ==
    options # NoOptions =>
        /\ \A k \in 1..Len(params.defines) :
             /\ params.defines[k].name \in DOMAIN options.defines
             /\ options.defines[params.defines[k].name] = params.defines[k].value
        /\ options.flags = DeclaredFlags(params)

(* Claims about overlapping sections and memory safety of loadFill *)

\* C16: after a successful DummyLoadImage read, the output byte of every
\* requested offset that two or more sections map is the byte of the first
\* of those sections in list order.
C16_FirstVisitedWins ==
    (lastRead.kind = "dummy" /\ ~lastRead.thrown) =>
        \A a \in Requested :
            Cardinality(Covering(image, a)) >= 2 =>
                lastRead.ptr[a - lastRead.address + 1] = ByteAt(image, a)

\* The buffer index (from 0) the zero-fill loop of the last read started at.
FillFrom ==
    IF lastRead.kind = "ctx" THEN lastRead.address + lastRead.bytes_written
    ELSE lastRead.bytes_written

\* C17: in every DummyLoadImage::loadFill call (both definitions) each copy
\* writes inside the buffer and reads inside its section, the count of copied
\* bytes stays within size, and every output byte is written by a copy or by
\* the zero-fill.
C17_LoadFillMemorySafe ==
    lastRead.kind \in {"dummy", "ctx"} =>
        LET cs == Copies(image, 1, lastRead.size, lastRead.address)
        IN  /\ \A c \in 1..Len(cs) :
                 /\ cs[c].len <= lastRead.size
                 /\ cs[c].start_idx + cs[c].len <= Len(image[cs[c].section].data)
            /\ lastRead.bytes_written <= lastRead.size
            /\ \A i \in 0..(lastRead.size - 1) :
                 \/ \E c \in 1..Len(cs) : i < cs[c].len
                 \/ i >= FillFrom

====
